---- MODULE Spec2Model ----
(***************************************************************************)
(* Model of app.py, the potluck sign-up sheet: sessions of a Streamlit     *)
(* script that read a shared Google Sheet through a connection with a      *)
(* 5-second read cache (get_data), render the menu in four columns, and    *)
(* append a dish through a whole-table overwrite (add_entry).              *)
(*                                                                         *)
(* Text is modelled as a sequence of one-character strings so that lower() *)
(* and strip() are computed; an emoji is one element written as its code   *)
(* point.  A blank sheet cell is NaN when read into a frame.               *)
(***************************************************************************)
EXTENDS Naturals, Sequences, FiniteSets

VARIABLES
    store,      \* the sheet: its header columns and its rows, blank cells NaN
    cache,      \* the connection's read cache: <<>> or <<the frame last fetched>>;
                \* conn is one object shared by the sessions
    pc,         \* where each session's script run stands
    df,         \* the module-level df of each session's latest run
    menu,       \* the columns rendered from df: <<>> for the "list is empty" box
    loadError,  \* whether the session's latest get_data showed "Could not load data"
    args,       \* <<>> or <<the arguments of the session's add_entry call>>
    snap,       \* <<>> or <<the df local to add_entry>>, kept until the next run
    outcome,    \* the message the latest submission of the session ended with
    writes      \* history: the writes to the sheet since the session's latest
                \* get_data call: "none", or "own" when the latest is its own,
                \* or "other"

vars == <<store, cache, pc, df, menu, loadError, args, snap, outcome, writes>>

\* ------------------------------------------------------------------ bounds

\* Largest number of rows a whole-table write may produce in the model.
MaxRows == 2

Sessions == {"s1", "s2"}

\* ------------------------------------------------------------------- text

Whitespace == {" ", "\t", "\n"}

Uppers == <<"A","B","C","D","E","F","G","H","I","J","K","L","M",
            "N","O","P","Q","R","S","T","U","V","W","X","Y","Z">>

Lowers == <<"a","b","c","d","e","f","g","h","i","j","k","l","m",
            "n","o","p","q","r","s","t","u","v","w","x","y","z">>

LowerChar(c) ==
    IF \E i \in 1..Len(Uppers) : Uppers[i] = c
    THEN Lowers[CHOOSE i \in 1..Len(Uppers) : Uppers[i] = c]
    ELSE c

\* str.lower()
lower(s) == [i \in 1..Len(s) |-> LowerChar(s[i])]

RECURSIVE lstrip(_)
lstrip(s) == IF s = <<>> \/ Head(s) \notin Whitespace THEN s ELSE lstrip(Tail(s))

RECURSIVE rstrip(_)
rstrip(s) ==
    IF s = <<>> \/ s[Len(s)] \notin Whitespace THEN s
    ELSE rstrip(SubSeq(s, 1, Len(s) - 1))

\* str.strip()
strip(s) == rstrip(lstrip(s))

\* ----------------------------------------------------------------- frames

\* The value pandas gives a blank cell.
NaN == <<"NaN">>

expected_cols == {"Name", "Category", "Dish", "Note"}

\* pd.DataFrame(columns=expected_cols)
EmptyFrame == [columns |-> expected_cols, rows |-> <<>>]

\* df.fillna("")
fillna(d) ==
    [columns |-> d.columns,
     rows    |-> [i \in 1..Len(d.rows) |->
                    [c \in DOMAIN d.rows[i] |->
                        IF d.rows[i][c] = NaN THEN <<>> ELSE d.rows[i][c]]]]

\* A row widened to the columns cols, the cells it lacks being NaN.
Reindex(row, cols) == [c \in cols |-> IF c \in DOMAIN row THEN row[c] ELSE NaN]

\* pd.concat([d, new_entry], ignore_index=True)
concat(d, new_entry) ==
    LET cols == d.columns \cup new_entry.columns
    IN  [columns |-> cols,
         rows    |-> [i \in 1..Len(d.rows) |-> Reindex(d.rows[i], cols)]
                     \o [i \in 1..Len(new_entry.rows) |-> Reindex(new_entry.rows[i], cols)]]

\* pd.DataFrame([{"Name": name, "Category": category, "Dish": dish, "Note": note}])
NewEntry(a) ==
    [columns |-> expected_cols,
     rows    |-> << [Name |-> a.name, Category |-> a.category,
                     Dish |-> a.dish, Note |-> a.note] >>]

\* What the sheet holds after conn.update(data=d): an empty string is a blank cell.
SheetOf(d) ==
    [columns |-> d.columns,
     rows    |-> [i \in 1..Len(d.rows) |->
                    [c \in DOMAIN d.rows[i] |->
                        IF d.rows[i][c] = <<>> THEN NaN ELSE d.rows[i][c]]]]

\* ------------------------------------------------------- connection reads

\* A fetch of the sheet that succeeds.
FreshRead == [ok |-> TRUE, data |-> store, cache |-> <<store>>]

\* conn.read(ttl=5) with a cache that also keeps the empty result of a fetch
\* that raised.
ConnReadCachingFailure ==
    IF cache # <<>>
    THEN {[ok |-> TRUE, data |-> cache[1], cache |-> cache]}
    ELSE {FreshRead,
          [ok |-> FALSE, data |-> store, cache |-> <<[columns |-> {}, rows |-> <<>>]>>]}

\* conn.read(ttl=5): the cached frame while the cache holds one, else a fetch
\* of the sheet that either fills the cache or raises.
ConnRead ==
    IF cache # <<>>
    THEN {[ok |-> TRUE, data |-> cache[1], cache |-> cache]}
    ELSE {FreshRead, [ok |-> FALSE, data |-> store, cache |-> cache]}

\* get_data(), given the outcome r of its conn.read
get_data(r) ==
    IF ~r.ok THEN EmptyFrame
    ELSE IF r.data.rows = <<>> \/ ~(expected_cols \subseteq r.data.columns)
         THEN EmptyFrame
         ELSE fillna(r.data)

\* ---------------------------------------------------------------- display

SidesCat      == <<"U+1F957"," ","S","i","d","e","s">>
MainsCat      == <<"U+1F357"," ","M","a","i","n","s">>
SidesAppsCat  == <<"U+1F957"," ","S","i","d","e","s"," ","&"," ","A","p","p","s">>
DessertCat    == <<"U+1F370"," ","D","e","s","s","e","r","t">>
DrinksCat     == <<"U+1F37A"," ","D","r","i","n","k","s">>
AppetizersCat == <<"U+1F968"," ","A","p","p","e","t","i","z","e","r","s">>

\* The options of the form's selectbox.
CATEGORIES == <<MainsCat, SidesAppsCat, DessertCat, DrinksCat, AppetizersCat>>

InCategories(r, categories) == r["Category"] \in categories

\* display_category: the cards of one column, cat_df = df[df['Category'].isin(categories)]
display_category(d, categories) ==
    SelectSeq(d.rows, LAMBDA r : InCategories(r, categories))

\* The rendered menu: nothing but the info box when the frame is empty, else
\* the four columns col_sides, col_mains, col_desserts, col_drinks.
RenderMenu(d) ==
    IF d.rows = <<>> THEN <<>>
    ELSE << display_category(d, {SidesCat, AppetizersCat}),
            display_category(d, {MainsCat}),
            display_category(d, {DessertCat}),
            display_category(d, {DrinksCat}) >>

\* ------------------------------------------------------------- duplicates

\* The membership test without lower(): a case-sensitive comparison.
DishInCaseSensitive(dish, d) ==
    \E i \in 1..Len(d.rows) : strip(d.rows[i]["Dish"]) = strip(dish)

\* The membership test without strip(): surrounding blanks count.
DishInUntrimmed(dish, d) ==
    \E i \in 1..Len(d.rows) : lower(d.rows[i]["Dish"]) = lower(dish)

\* dish.lower().strip() in df['Dish'].str.lower().str.strip().values
DishIn(dish, d) ==
    \E i \in 1..Len(d.rows) : strip(lower(d.rows[i]["Dish"])) = strip(lower(dish))

\* The guard of add_entry's early return.
IsDuplicate(d, dish) == d.rows # <<>> /\ DishIn(dish, d)

\* ---------------------------------------------------------------- messages

NoMessage      == "none"
NameError      == "Please enter your name."
DishError      == "Please tell us what you're bringing."
DuplicateError == "This dish is already on the list! Please bring something else."
SuccessMessage == "Dish added successfully!"
\* conn.update raised: add_entry returned nothing and the script run was aborted.
Raised         == "exception"

\* ------------------------------------------------------------- form inputs

Empty   == <<>>
Blank   == <<" ">>
Al      == <<" ","A","l">>
Bo      == <<"B","o">>
Sam     == <<"S","a","m"," ">>
Lasagna == <<"L","a","s","a","g","n","a">>
lasagna == <<" ","l","a","s","a","g","n","a"," ">>
Tea     == <<"T","e","a">>
Vegan   == <<"V","e","g","a","n">>

\* What the user of session s may have typed and selected when the button is
\* pressed: s1 is Al, s2 is Bo.
Forms(s) ==
    IF s = "s1"
    THEN { [f_name |-> Empty, f_partner |-> Empty, f_category |-> MainsCat,
            f_dish |-> Lasagna, f_note |-> Empty],
           [f_name |-> Blank, f_partner |-> Sam, f_category |-> MainsCat,
            f_dish |-> Empty, f_note |-> Empty],
           [f_name |-> Al, f_partner |-> Empty, f_category |-> DrinksCat,
            f_dish |-> Blank, f_note |-> Vegan],
           [f_name |-> Al, f_partner |-> Blank, f_category |-> MainsCat,
            f_dish |-> Lasagna, f_note |-> Empty],
           [f_name |-> Al, f_partner |-> Empty, f_category |-> DessertCat,
            f_dish |-> Tea, f_note |-> Empty] }
    ELSE { [f_name |-> Bo, f_partner |-> Sam, f_category |-> SidesAppsCat,
            f_dish |-> lasagna, f_note |-> Vegan] }

\* not text, without the strip(): only the empty string is refused.
IsEmpty(text) == text = <<>>

\* not text.strip()
IsBlank(text) == strip(text) = <<>>

\* full_name = f_name.strip(), then " & " and the partner when one is given
FullName(f) ==
    IF ~IsBlank(f.f_partner)
    THEN strip(f.f_name) \o <<" ", "&", " ">> \o strip(f.f_partner)
    ELSE strip(f.f_name)

\* The sheets a deployment may start from: a brand-new sheet, a sheet with a
\* row, and a sheet whose header lacks the Note column.
InitialSheets ==
    { [columns |-> {}, rows |-> <<>>],
      [columns |-> expected_cols,
       rows    |-> << [Name |-> <<"A","l">>, Category |-> MainsCat,
                       Dish |-> Lasagna, Note |-> NaN] >>],
      [columns |-> {"Name", "Category", "Dish"},
       rows    |-> << [Name |-> Bo, Category |-> DessertCat, Dish |-> Tea] >>] }

\* ------------------------------------------------------------------ state

Init ==
    /\ store \in InitialSheets
    /\ cache = <<>>
    /\ pc = [s \in Sessions |-> "run"]
    /\ df = [s \in Sessions |-> EmptyFrame]
    /\ menu = [s \in Sessions |-> <<>>]
    /\ loadError = [s \in Sessions |-> FALSE]
    /\ args = [s \in Sessions |-> <<>>]
    /\ snap = [s \in Sessions |-> <<>>]
    /\ outcome = [s \in Sessions |-> NoMessage]
    /\ writes = [s \in Sessions |-> "other"]

\* The frame a fetch of session s returns for read outcome r, and its effects
\* on the cache and on the page's error box.
Fetched(s, r) ==
    /\ cache' = r.cache
    /\ loadError' = [loadError EXCEPT ![s] = ~r.ok]
    /\ writes' = [writes EXCEPT ![s] = "none"]

\* A script run starts: df = get_data() and the menu is rendered.
Load(s) ==
    /\ pc[s] \in {"run", "form"}
    /\ \E r \in ConnRead :
         /\ Fetched(s, r)
         /\ df' = [df EXCEPT ![s] = get_data(r)]
         /\ menu' = [menu EXCEPT ![s] = RenderMenu(get_data(r))]
    /\ pc' = [pc EXCEPT ![s] = "form"]
    /\ args' = [args EXCEPT ![s] = <<>>]
    /\ snap' = [snap EXCEPT ![s] = <<>>]
    /\ outcome' = [outcome EXCEPT ![s] = NoMessage]
    /\ UNCHANGED store

\* if submitted: the two validations, then the call of add_entry.
Submit(s, f) ==
    /\ pc[s] = "form"
    /\ IF IsBlank(f.f_name)
       THEN /\ outcome' = [outcome EXCEPT ![s] = NameError]
            /\ pc' = [pc EXCEPT ![s] = "run"]
            /\ UNCHANGED args
       ELSE IF IsBlank(f.f_dish)
       THEN /\ outcome' = [outcome EXCEPT ![s] = DishError]
            /\ pc' = [pc EXCEPT ![s] = "run"]
            /\ UNCHANGED args
       ELSE /\ args' = [args EXCEPT ![s] =
                          << [name |-> FullName(f), category |-> f.f_category,
                              dish |-> f.f_dish, note |-> f.f_note] >>]
            /\ pc' = [pc EXCEPT ![s] = "add_entry"]
            /\ UNCHANGED outcome
    /\ UNCHANGED <<store, cache, df, menu, loadError, snap, writes>>

\* add_entry: df = get_data()
AddEntryRead(s) ==
    /\ pc[s] = "add_entry"
    /\ \E r \in ConnRead :
         /\ Fetched(s, r)
         /\ snap' = [snap EXCEPT ![s] = <<get_data(r)>>]
    /\ pc' = [pc EXCEPT ![s] = "check"]
    /\ UNCHANGED <<store, df, menu, args, outcome>>

\* add_entry: the duplicate check and its early return
AddEntryCheck(s) ==
    /\ pc[s] = "check"
    /\ IF IsDuplicate(snap[s][1], args[s][1].dish)
       THEN /\ outcome' = [outcome EXCEPT ![s] = DuplicateError]
            /\ pc' = [pc EXCEPT ![s] = "run"]
       ELSE /\ pc' = [pc EXCEPT ![s] = "update"]
            /\ UNCHANGED outcome
    /\ UNCHANGED <<store, cache, df, menu, loadError, args, snap, writes>>

\* updated_df = pd.concat([df, new_entry], ignore_index=True)
updated_df(s) == concat(snap[s][1], NewEntry(args[s][1]))

\* An update that appends the last row of d to the sheet as it is now.
AppendToSheet(sheet, d) ==
    [columns |-> sheet.columns \cup d.columns,
     rows    |-> sheet.rows \o << SheetOf(d).rows[Len(d.rows)] >>]

\* The sheet after conn.update(data=d) succeeded on the sheet sheet: the whole
\* table is replaced.
Overwrite(sheet, d) == SheetOf(d)

\* add_entry: conn.update succeeds and add_entry returns True
AddEntryUpdate(s) ==
    /\ pc[s] = "update"
    /\ Len(updated_df(s).rows) <= MaxRows
    /\ store' = Overwrite(store, updated_df(s))
    /\ outcome' = [outcome EXCEPT ![s] = SuccessMessage]
    /\ pc' = [pc EXCEPT ![s] = "reset"]
    /\ writes' = [t \in Sessions |->
                    IF t # s THEN "other" ELSE "own"]
    /\ UNCHANGED <<cache, df, menu, loadError, args, snap>>

\* add_entry: conn.update raises; nothing catches it
AddEntryUpdateFails(s) ==
    /\ pc[s] = "update"
    /\ outcome' = [outcome EXCEPT ![s] = Raised]
    /\ pc' = [pc EXCEPT ![s] = "run"]
    /\ UNCHANGED <<store, cache, df, menu, loadError, args, snap, writes>>

\* The rerun after a success with the cache left as it is.
ResetKeepsCache(s) ==
    /\ pc[s] = "reset"
    /\ pc' = [pc EXCEPT ![s] = "run"]
    /\ UNCHANGED <<store, cache, df, menu, loadError, args, snap, outcome, writes>>

\* if success: conn.reset() clears the cache, then st.rerun()
Reset(s) ==
    /\ pc[s] = "reset"
    /\ cache' = <<>>
    /\ pc' = [pc EXCEPT ![s] = "run"]
    /\ UNCHANGED <<store, df, menu, loadError, args, snap, outcome, writes>>

\* Five seconds pass since the cached read.
Expire ==
    /\ cache # <<>>
    /\ cache' = <<>>
    /\ UNCHANGED <<store, pc, df, menu, loadError, args, snap, outcome, writes>>

Next ==
    \/ \E s \in Sessions : Load(s)
    \/ \E s \in Sessions : \E f \in Forms(s) : Submit(s, f)
    \/ \E s \in Sessions : AddEntryRead(s)
    \/ \E s \in Sessions : AddEntryCheck(s)
    \/ \E s \in Sessions : AddEntryUpdate(s)
    \/ \E s \in Sessions : AddEntryUpdateFails(s)
    \/ \E s \in Sessions : Reset(s)
    \/ Expire

Spec == Init /\ [][Next]_vars

\* ----------------------------------------------------------------- claims

\* The session has every control position the script has.
TypeOK ==
    \A s \in Sessions : pc[s] \in {"run", "form", "add_entry", "check", "update", "reset"}

\* The key two dish cells are compared by: blank cells read as the empty
\* string, then lower-casing and trimming.
DishKey(cell) == strip(lower(IF cell = NaN THEN <<>> ELSE cell))

\* The frame get_data returns when its read fetches the sheet as it is now.
Current == get_data(FreshRead)

\* The frame the latest get_data call of session s returned.
LastFetch(s) == IF snap[s] # <<>> THEN snap[s][1] ELSE df[s]

\* The step is a get_data call of session s (at the start of a run, or inside
\* add_entry), and Returned(s) is the frame it returns.
Fetches(s) ==
    \/ pc[s] \in {"run", "form"} /\ pc'[s] = "form"
    \/ pc[s] = "add_entry" /\ pc'[s] = "check"

Returned(s) == IF pc[s] = "add_entry" THEN snap'[s][1] ELSE df'[s]

\* The step is the successful conn.update of session s.
Writes(s) == pc[s] = "update" /\ pc'[s] = "reset"

\* The sheet row of the entry session s submitted.
Submitted(s) == SheetOf(NewEntry(args[s][1])).rows[1]

\* C1: the stored table never holds two rows whose Dish values are equal
\* under lower-casing and trimming.
C1_UniqueDishes ==
    \A i, j \in 1..Len(store.rows) :
        i # j => DishKey(store.rows[i]["Dish"]) # DishKey(store.rows[j]["Dish"])

\* C1 witness: a submit has appended a second row to a stored row.
C1_Witness ==
    /\ Len(store.rows) = 2
    /\ \E s \in Sessions : outcome[s] = SuccessMessage /\ store.rows[2] = Submitted(s)

\* C2 (as claimed): a successful submit with no other session's write between
\* its read and its write leaves every prior row in place and adds exactly
\* the candidate at the end, whatever its internal read returned.
C2_AppendOnly ==
    [][\A s \in Sessions :
         (Writes(s) /\ writes[s] = "none")
            => store'.rows = Append(store.rows, Submitted(s))]_vars

\* C3 (as claimed): the snapshot add_entry checks against is the content of
\* the stored table at the moment of its internal read, never an earlier
\* cached snapshot (reads that raise set aside).
C3_FreshSnapshot ==
    [][\A s \in Sessions :
         (pc[s] = "add_entry" /\ pc'[s] = "check" /\ ~loadError'[s])
            => snap'[s][1] = Current]_vars

\* C4: when the snapshot add_entry read holds a dish equal to the candidate's
\* after lower-casing and trimming, it returns the duplicate message, does not
\* go on to the write, and the stored table is unchanged.
C4_DuplicateRejected ==
    [][\A s \in Sessions :
         (/\ pc[s] = "check" /\ pc'[s] # "check"
          /\ \E i \in 1..Len(snap[s][1].rows) :
                DishKey(snap[s][1].rows[i]["Dish"]) = DishKey(args[s][1].dish))
            => /\ outcome'[s] = DuplicateError
               /\ pc'[s] = "run"
               /\ store' = store]_vars

\* C4 witness: a candidate that differs from a stored dish only in case and
\* surrounding blanks was refused.
C4_Witness ==
    \E s \in Sessions :
        /\ outcome[s] = DuplicateError
        /\ \E i \in 1..Len(store.rows) :
              /\ store.rows[i]["Dish"] # args[s][1].dish
              /\ DishKey(store.rows[i]["Dish"]) = DishKey(args[s][1].dish)

\* C5: a submission whose name or dish is empty or only blanks gets the
\* validation message (the name's first), add_entry is not entered, no read
\* and no write is issued, and the stored table is unchanged.
C5_ValidationFirst ==
    [][\A s \in Sessions : \A f \in Forms(s) :
         (Submit(s, f) /\ (strip(f.f_name) = <<>> \/ strip(f.f_dish) = <<>>))
            => /\ outcome'[s] = IF strip(f.f_name) = <<>> THEN NameError ELSE DishError
               /\ pc'[s] = "run"
               /\ args'[s] = <<>>
               /\ store' = store
               /\ cache' = cache]_vars

\* C5 witness: session s1 gave a name and a dish of blanks only, was shown
\* the dish message, and its run ended without entering add_entry.
C5_Witness ==
    /\ outcome["s1"] = DishError
    /\ args["s1"] = <<>>
    /\ pc["s1"] = "run"

\* C6 (as claimed): a conn.update that fails ends add_entry with a failure
\* value handed to the form handler, not with an exception.
C6_WriteFailureReturned ==
    [][\A s \in Sessions :
         (pc[s] = "update" /\ pc'[s] = "run") => outcome'[s] # Raised]_vars

\* C7: when two sessions have both been told of success after checking
\* against the same snapshot, the stored table is that snapshot and one row:
\* the later overwrite has removed the row the earlier one wrote.
C7_LostUpdate ==
    \A s, t \in Sessions :
        (/\ s # t
         /\ outcome[s] = SuccessMessage /\ outcome[t] = SuccessMessage
         /\ snap[s] # <<>> /\ snap[s] = snap[t])
            => /\ Len(store.rows) = Len(snap[s][1].rows) + 1
               /\ store.rows[Len(store.rows)] \in {Submitted(s), Submitted(t)}

\* C7 witness: both sessions submitted different dishes, both were told of
\* success, and only one of the two rows is stored.
C7_Witness ==
    /\ outcome["s1"] = SuccessMessage /\ outcome["s2"] = SuccessMessage
    /\ snap["s1"] # <<>> /\ snap["s1"] = snap["s2"]
    /\ DishKey(args["s1"][1].dish) # DishKey(args["s2"][1].dish)
    /\ Len(store.rows) = 1
    /\ loadError = [s \in Sessions |-> FALSE]

\* C8 (as claimed): a get_data call of a session with no write to the stored
\* table since the session's previous call returns what the previous call
\* returned.
C8_IdempotentRead ==
    [][\A s \in Sessions :
         (Fetches(s) /\ writes[s] = "none") => Returned(s) = LastFetch(s)]_vars

\* C8 (amended): the same, when the previous call returned the table's
\* content and the second call's read does not raise.
C8_IdempotentFreshRead ==
    [][\A s \in Sessions :
         (Fetches(s) /\ writes[s] = "none" /\ LastFetch(s) = Current /\ ~loadError'[s])
            => Returned(s) = LastFetch(s)]_vars

\* C8 witness: add_entry's read returned the rows the page load had returned.
C8_Witness ==
    \E s \in Sessions :
        /\ pc[s] = "check" /\ writes[s] = "none" /\ ~loadError[s]
        /\ snap[s][1] = df[s]
        /\ df[s].rows # <<>>

\* The last entry of frame d has the submitted name, category, dish and note.
LastIs(d, a) ==
    /\ d.rows # <<>>
    /\ d.rows[Len(d.rows)] = [Name |-> a.name, Category |-> a.category,
                              Dish |-> a.dish, Note |-> a.note]

\* C9 (as claimed): the run after a success, no other session having written
\* since, loads a frame whose last entry is the submitted one.
C9_ReadYourWrite ==
    [][\A s \in Sessions :
         (/\ pc[s] = "run" /\ pc'[s] = "form"
          /\ outcome[s] = SuccessMessage /\ writes[s] = "own")
            => LastIs(df'[s], args[s][1])]_vars

\* C9 (amended): the same, when the read of that run does not raise.
C9_ReadYourWriteUnlessReadFails ==
    [][\A s \in Sessions :
         (/\ pc[s] = "run" /\ pc'[s] = "form"
          /\ outcome[s] = SuccessMessage /\ writes[s] = "own"
          /\ ~loadError'[s])
            => LastIs(df'[s], args[s][1])]_vars

\* C9 witness: a session about to rerun after its success, the cache cleared.
C9_Witness ==
    \E s \in Sessions :
        /\ pc[s] = "run" /\ outcome[s] = SuccessMessage /\ writes[s] = "own"
        /\ cache = <<>>

\* The number of display columns of menu m that show row r.
ShownIn(m, r) ==
    Cardinality({k \in 1..Len(m) : \E i \in 1..Len(m[k]) : m[k][i] = r})

\* C10 (as claimed): every loaded entry whose category the form offers is
\* shown in exactly one of the four columns.
C10_BucketCoverage ==
    \A s \in Sessions : \A i \in 1..Len(df[s].rows) :
        (\E k \in 1..Len(CATEGORIES) : df[s].rows[i]["Category"] = CATEGORIES[k])
            => ShownIn(menu[s], df[s].rows[i]) = 1

====
